---- MODULE Spec2Model ----
(***************************************************************************)
(* Contact Capture Bot (src/capture.py): one scheduled run polls the       *)
(* Telegram inbox, drives every pending update through process_update in   *)
(* fetch order and confirms the batch with a single offset.                *)
(*                                                                         *)
(* Texts are sequences of units (a unit stands for a run of characters).   *)
(* An optional value (Python None or a value) is the empty sequence or a   *)
(* one-element sequence holding the value.                                 *)
(***************************************************************************)
EXTENDS Integers, Sequences, FiniteSets, Bags, TLC

\* ---------------------------------------------------------------- bounds
MaxUpdates == 2     \* updates that ever reach the inbox
MaxRuns    == 2     \* scheduled runs of main() that fetch a batch

\* ------------------------------------------------------- optional values
None     == <<>>
Some(x)  == <<x>>
\* Python truthiness of an optional text: None and "" are falsy
Truthy(o) == o # None /\ o[1] # <<>>

\* ------------------------------------------------------------- the inbox
NoChat    == ""        \* message without a chat id (chat_id falsy)
OwnerChat == "111"
OtherChat == "222"

NoteText  == <<"Met Jane Doe from Acme Corp">>
StartCmd  == <<"/", "start">>
HelpCmd   == <<"/", "help">>
HelpCmdSp == <<"/", "help", " ">>
OtherCmd  == <<"/", "new">>
CaptionText == <<"met at expo">>

Message(chat, photo, voice, text, caption) ==
    [chat |-> chat, photo |-> photo, voice |-> voice, text |-> text, caption |-> caption]

\* the payloads an update can carry (message.get("photo"/"voice"/"text"/"caption"))
MsgShapes ==
    { Message(OwnerChat, FALSE, FALSE, t, <<>>) : t \in {NoteText, HelpCmdSp, OtherCmd} }
    \cup { Message(OwnerChat, TRUE, FALSE, <<>>, CaptionText),
           Message(OwnerChat, FALSE, TRUE, <<>>, <<>>),
           Message(OtherChat, FALSE, FALSE, NoteText, <<>>) }

\* ----------------------------------------------------------------- state
VARIABLES
    config,      \* module-level configuration read from the environment
    server,      \* the updates the inbox holds, in update_id order
    cursor,      \* inbox cursor: the updates with update_id < cursor are confirmed and dropped
    store,       \* the pages of the Notion database: a bag holding, for every page
                 \* created, the update_id of the message it was created for
    runs,        \* number of runs of main() so far that fetched a batch
    pc,          \* position of the running main(): "idle" between runs
    updates,     \* main: the fetched batch
    idx,         \* main: 1-based position of the for loop in updates
    processed,   \* main: the processed counter
    attempted,   \* per run: the update_id of every process_update call that has ended
    ackLog,      \* per run: the offsets confirm_updates was called with
    calls,       \* the calls made by the process_update call main is in or has just left
    posted,      \* the page that process_update call created in Notion, if any
    frame        \* the locals of that process_update call

vars == <<config, server, cursor, store, runs, pc, updates, idx, processed,
          attempted, ackLog, calls, posted, frame>>

\* the optional settings (lines 27-32), "" / FALSE when the variable is unset
Config(chat, openai, exa, apollo) ==
    [TELEGRAM_CHAT_ID |-> chat, OPENAI_API_KEY |-> openai,
     EXA_API_KEY |-> exa, APOLLO_API_KEY |-> apollo]

\* the environments explored: every optional setting set, and none of them
Configs ==
    { Config(OwnerChat, TRUE, TRUE, TRUE),
      Config("", FALSE, FALSE, FALSE) }

\* the locals of process_update (lines 518-519, 594, 610, 622)
Frame(raw_text, source) ==
    [raw_text |-> raw_text, source |-> source, parsed |-> None, enriched |-> None,
     exa_results |-> <<>>, dossier |-> None]

\* no process_update call is active
NoFrame == Frame(<<>>, "Text")

Init ==
    /\ config \in Configs
    /\ server = <<>>
    /\ cursor = 1
    /\ store = EmptyBag
    /\ runs = 0
    /\ pc = "idle"
    /\ updates = <<>>
    /\ idx = 1
    /\ processed = 0
    /\ attempted = <<>>
    /\ ackLog = <<>>
    /\ calls = <<>>
    /\ posted = None
    /\ frame = NoFrame

\* ------------------------------------------------------ sequence helpers
RECURSIVE SelectFrom(_, _)
\* the updates of s with update_id >= c, in order
SelectFrom(s, c) ==
    IF s = <<>> THEN <<>>
    ELSE IF Head(s).update_id >= c THEN <<Head(s)>> \o SelectFrom(Tail(s), c)
         ELSE SelectFrom(Tail(s), c)

Last(s) == s[Len(s)]

\* a call as recorded: the function, the text passed to it, how it ended
Call(op, arg, out) == [op |-> op, arg |-> arg, out |-> out]

\* ------------------------------------------------------------- text helpers
IsSpace(u) == u \in {" ", "\n"}

RECURSIVE LStrip(_)
LStrip(t) == IF t # <<>> /\ IsSpace(Head(t)) THEN LStrip(Tail(t)) ELSE t

RECURSIVE RStrip(_)
RStrip(t) == IF t # <<>> /\ IsSpace(Last(t)) THEN RStrip(SubSeq(t, 1, Len(t) - 1)) ELSE t

\* str.strip()
Strip(t) == RStrip(LStrip(t))

\* str.startswith(u) for a one-unit prefix
StartsWith(t, u) == t # <<>> /\ Head(t) = u

\* ------------------------------------------------------ outcomes of calls
\* requests.post in send_message: a response of any status returns normally,
\* a transport failure raises
SendOutcomes == {"ok", "raise"}

\* send_message(chat_id, text): the call as recorded, text named by its kind
send_message(text, out) == Call("send_message", <<text>>, out)

\* --------------------------------------------------------- parse_contact
\* a ParsedContact: every field None or a text
Contact(name, company, title, email, event, context, follow_up, domain) ==
    [name |-> name, company |-> company, title |-> title, email |-> email,
     phone |-> None, event |-> event, context |-> context,
     follow_up |-> follow_up, search_company_domain |-> domain]

ParsedFull ==
    Contact(Some(<<"Jane Doe">>), Some(<<"Acme Corp">>), Some(<<"VP Eng">>), None,
            Some(<<"expo">>), Some(<<"new API platform">>), Some(<<"send deck">>),
            Some(<<"acme.com">>))
ParsedNoName ==
    Contact(None, Some(<<"Acme Corp">>), None, None, None,
            Some(<<"new API platform">>), None, None)
ParsedEmptyName ==
    Contact(Some(<<>>), None, None, None, Some(<<"expo">>), None, None, None)

\* the JSON documents the model can return, each one unit of the response
JsonDicts == {"{full}", "{no_name}", "{empty_name}"}
JsonDocs  == JsonDicts \cup {"[]", "null"}

\* json.loads of a document that is an object
JsonDict(doc) ==
    CASE doc = "{full}"       -> ParsedFull
      [] doc = "{no_name}"    -> ParsedNoName
      [] doc = "{empty_name}" -> ParsedEmptyName

\* the completions of the extraction model
ExtractResponses ==
    { <<d>> : d \in JsonDocs }
    \cup { <<"I could not find a contact in this note.">>,
           <<"<fence>json", "\n", "{full}", "\n", "<fence>", "\n">>,
           <<"<fence>", "{no_name}", "<fence>">>,
           <<"{full}", "\n", "Let me know if you need more.">> }

\* the request to the model raised instead of returning a completion
ApiError == <<"<api error>">>
ExtractOutcomes == ExtractResponses \cup {ApiError}

IsFence(u) == u \in {"<fence>", "<fence>json"}

\* position of the first "\n" of t at or after i, 0 if none
IndexOfNewline(t, i) ==
    IF \E k \in i..Len(t) : t[k] = "\n"
    THEN CHOOSE k \in i..Len(t) : t[k] = "\n" /\ \A j \in i..(k - 1) : t[j] # "\n"
    ELSE 0

RECURSIVE LastFence(_, _)
\* position of the last fence of t at or before i, 0 if none
LastFence(t, i) ==
    IF i = 0 THEN 0 ELSE IF IsFence(t[i]) THEN i ELSE LastFence(t, i - 1)

\* lines 170-172: strip, then drop a leading fence line and a trailing fence;
\* <<>> with raised set when split("\n", 1)[1] has no second part
Unfence(resp) ==
    LET t == Strip(resp) IN
    IF t # <<>> /\ IsFence(Head(t))
    THEN LET n == IndexOfNewline(t, 1) IN
         IF n = 0 THEN [raised |-> TRUE, text |-> <<>>]
         ELSE LET rest == SubSeq(t, n + 1, Len(t))
                  f == LastFence(rest, Len(rest))
              IN [raised |-> FALSE,
                  text |-> Strip(IF f = 0 THEN rest ELSE SubSeq(rest, 1, f - 1))]
    ELSE [raised |-> FALSE, text |-> t]

\* parse_contact(text) for a completion resp: out is "raise" (an exception
\* left the function), "dict" (a JSON object) or "non_dict" (any other JSON
\* value); value is the object
parse_contact(resp) ==
    LET u == Unfence(resp) IN
    IF u.raised \/ Len(u.text) # 1 \/ (Len(u.text) = 1 /\ u.text[1] \notin JsonDocs)
    THEN [out |-> "raise", value |-> None]
    ELSE IF u.text[1] \in JsonDicts
    THEN [out |-> "dict", value |-> Some(JsonDict(u.text[1]))]
    ELSE [out |-> "non_dict", value |-> None]

\* ---------------------------------------------------- enrich_with_apollo
EnrichedFull ==
    [name |-> Some(<<"Jane A. Doe">>), title |-> Some(<<"VP Engineering">>),
     email |-> Some(<<"jane@acme.com">>), linkedin_url |-> Some(<<"linkedin.com/in/jane">>),
     company |-> Some(<<"Acme Corporation">>), company_website |-> Some(<<"acme.com">>),
     city |-> Some(<<"Oslo">>), state |-> None, country |-> Some(<<"Norway">>)]

\* what the Apollo request can do: raise, answer with a status other than
\* 200, answer 200 with no people, answer 200 with a first person
ApolloResponses ==
    { [status |-> "raise", people |-> <<>>],
      [status |-> "500", people |-> <<>>],
      [status |-> "200", people |-> <<>>],
      [status |-> "200", people |-> <<EnrichedFull>>] }

\* enrich_with_apollo without the APOLLO_API_KEY check: the request is always made
enrich_with_apolloUnchecked(resp) ==
    IF resp.status = "raise" THEN [out |-> "raise", value |-> None]
    ELSE IF resp.status # "200" THEN [out |-> "http_error", value |-> None]
    ELSE IF resp.people = <<>> THEN [out |-> "no_match", value |-> None]
    ELSE [out |-> "match", value |-> Some(resp.people[1])]

\* enrich_with_apollo(name, domain) for a response (lines 178-217): out names
\* how the call ended, value is the returned dict or None
enrich_with_apollo(resp) ==
    IF ~ config.APOLLO_API_KEY THEN [out |-> "no_key", value |-> None]
    ELSE IF resp.status = "raise" THEN [out |-> "raise", value |-> None]
    ELSE IF resp.status # "200" THEN [out |-> "http_error", value |-> None]
    ELSE IF resp.people = <<>> THEN [out |-> "no_match", value |-> None]
    ELSE [out |-> "match", value |-> Some(resp.people[1])]

\* ------------------------------------------------------------ exa_research
Result(title, url, text) == [title |-> title, url |-> url, text |-> text]
ResA  == Result("Jane Doe - Acme", "acme.com/team", "bio")
ResA2 == Result("Team page", "acme.com/team", "team")
ResB  == Result("Keynote", "conf.org/talk", "talk")

\* what one Exa search request can do
ExaResponses ==
    { [status |-> "raise", results |-> <<>>],
      [status |-> "500", results |-> <<>>],
      [status |-> "200", results |-> <<ResA, ResA2, ResB>>] }

\* the queries built for a contact (lines 228-233): two with a company, one without
NumQueries(company) == IF Truthy(company) THEN 2 ELSE 1

\* AddResults without seen_urls: every result is appended
AddResultsAll(all, rs) == all \o rs

RECURSIVE AddResults(_, _)
\* lines 256-264: append the results whose url is not yet in all_results
AddResults(all, rs) ==
    IF rs = <<>> THEN all
    ELSE IF \E i \in 1..Len(all) : all[i].url = Head(rs).url
         THEN AddResults(all, Tail(rs))
         ELSE AddResults(Append(all, Head(rs)), Tail(rs))

RECURSIVE RunQueries(_, _)
\* lines 238-268: the queries one after the other; a query that raised or was
\* answered with a status other than 200 adds nothing
RunQueries(all, resps) ==
    IF resps = <<>> THEN all
    ELSE RunQueries(IF Head(resps).status = "200" THEN AddResults(all, Head(resps).results)
                    ELSE all,
                    Tail(resps))

\* how many of the queries failed
Failed(resps) == Cardinality({i \in 1..Len(resps) : resps[i].status # "200"})

\* exa_research(name, company) for the responses to its queries
exa_research(resps) ==
    IF ~ config.EXA_API_KEY THEN [out |-> "no_key", value |-> <<>>]
    ELSE [out |-> IF Failed(resps) = 0 THEN "ok"
                  ELSE IF Failed(resps) = Len(resps) THEN "all_failed" ELSE "some_failed",
          value |-> RunQueries(<<>>, resps)]

\* ------------------------------------------------------ synthesize_dossier
\* a dossier: markup characters are units of their own, words are one unit each
DossierText ==
    <<"*", "*", "Background", ":", "*", "*", "\n",
      "Led", " ", "the", " ", "*", "*", "API", "*", "*", " ", "platform">>

\* the completions of the synthesis model
DossierResponses == {DossierText}

\* ShouldSynthesize without the test: a dossier is asked for every contact
ShouldSynthesizeAlways(results, enr) == TRUE

\* the dossier is synthesized only from enrichment or research (line 623)
ShouldSynthesize(results, enr) == results # <<>> \/ enr # None

\* ------------------------------------------------------------ Notion blocks
MaxRunLen == 2000      \* the length limit of one rich-text run

Run(content, bold) == [content |-> content, bold |-> bold]
Block(type, rich_text) == [type |-> type, rich_text |-> rich_text]

Take(t, n) == SubSeq(t, 1, IF Len(t) < n THEN Len(t) ELSE n)
Drop(t, n) == SubSeq(t, n + 1, Len(t))

RECURSIVE _notion_paragraph(_)
\* lines 330-340: one paragraph block per chunk of at most 2000 units
_notion_paragraph(text) ==
    IF text = <<>> THEN <<>>
    ELSE <<Block("paragraph", <<Run(Take(text, MaxRunLen), FALSE)>>)>>
         \o _notion_paragraph(Drop(text, MaxRunLen))

\* lines 343-348
_notion_heading(text) == Block("heading_3", <<Run(text, FALSE)>>)

\* text[i], text[i+1] are the bold marker
StarsAt(t, i) == i >= 1 /\ i + 1 <= Len(t) /\ t[i] = "*" /\ t[i + 1] = "*"

\* the first position >= i where a bold marker starts, 0 if none
NextStars(t, i) ==
    IF \E k \in i..Len(t) : StarsAt(t, k)
    THEN CHOOSE k \in i..Len(t) : StarsAt(t, k) /\ \A j \in i..(k - 1) : ~ StarsAt(t, j)
    ELSE 0

\* one part of re.split as a segment list (lines 356-366)
PartSegments(part) ==
    IF part = <<>> THEN <<>>
    ELSE IF StarsAt(part, 1) /\ StarsAt(part, Len(part) - 1)
    THEN LET content == SubSeq(part, 3, Len(part) - 2) IN
         IF content # <<>> THEN <<Run(Take(content, MaxRunLen), TRUE)>> ELSE <<>>
    ELSE <<Run(Take(part, MaxRunLen), FALSE)>>

RECURSIVE SplitBold(_)
\* re.split(r'(\*\*.*?\*\*)', text) followed by the loop over the parts
SplitBold(t) ==
    LET i == NextStars(t, 1)
        j == IF i = 0 THEN 0 ELSE NextStars(t, i + 2)
    IN IF i = 0 \/ j = 0 THEN PartSegments(t)
       ELSE PartSegments(SubSeq(t, 1, i - 1))
            \o PartSegments(SubSeq(t, i, j + 1))
            \o SplitBold(Drop(t, j + 1))

\* lines 351-367
_parse_rich_text(text) ==
    IF SplitBold(text) = <<>> THEN <<Run(<<>>, FALSE)>> ELSE SplitBold(text)

RECURSIVE SplitLines(_)
\* str.split('\n')
SplitLines(t) ==
    LET n == IndexOfNewline(t, 1) IN
    IF n = 0 THEN <<t>> ELSE <<SubSeq(t, 1, n - 1)>> \o SplitLines(Drop(t, n))

RECURSIVE LStripSet(_, _)
LStripSet(t, cs) == IF t # <<>> /\ Head(t) \in cs THEN LStripSet(Tail(t), cs) ELSE t

RECURSIVE RStripSet(_, _)
RStripSet(t, cs) ==
    IF t # <<>> /\ Last(t) \in cs THEN RStripSet(SubSeq(t, 1, Len(t) - 1), cs) ELSE t

\* re.match(r'^\*\*[^*]+\*\*\s*$', stripped) for a stripped line
IsBoldLine(t) ==
    /\ Len(t) >= 5
    /\ StarsAt(t, 1)
    /\ StarsAt(t, Len(t) - 1)
    /\ \A k \in 3..(Len(t) - 2) : t[k] # "*"

\* the block of one non-empty stripped line (lines 378-413)
LineBlock(t) ==
    IF Len(t) >= 2 /\ t[1] = "#" /\ t[2] = " "
    THEN Block("heading_2", <<Run(Take(Strip(Drop(t, 2)), MaxRunLen), FALSE)>>)
    ELSE IF Len(t) >= 3 /\ t[1] = "#" /\ t[2] = "#" /\ t[3] = " "
    THEN Block("heading_3", <<Run(Take(Strip(Drop(t, 3)), MaxRunLen), FALSE)>>)
    ELSE IF IsBoldLine(t)
    THEN Block("heading_3",
               <<Run(Take(RStripSet(RStripSet(LStripSet(t, {"*", " "}), {"*", " "}), {":"}),
                          MaxRunLen), FALSE)>>)
    ELSE IF Len(t) >= 2 /\ t[1] \in {"-", "*"} /\ t[2] = " "
    THEN Block("bulleted_list_item", _parse_rich_text(Strip(Drop(t, 2))))
    ELSE Block("paragraph", _parse_rich_text(t))

RECURSIVE LinesToBlocks(_)
LinesToBlocks(lines) ==
    IF lines = <<>> THEN <<>>
    ELSE (IF Strip(Head(lines)) = <<>> THEN <<>> ELSE <<LineBlock(Strip(Head(lines)))>>)
         \o LinesToBlocks(Tail(lines))

\* lines 370-415
_markdown_to_notion_blocks(markdown_text) == LinesToBlocks(SplitLines(markdown_text))

\* ---------------------------------------------------- create_notion_contact
\* a or b or "" over optional texts
OrText(a, b) == IF Truthy(a) THEN a[1] ELSE IF Truthy(b) THEN b[1] ELSE <<>>

\* (enriched or {}).get(key)
EGet(enr, key) == IF enr = None THEN None ELSE enr[1][key]

RECURSIVE Join(_, _)
\* sep.join(parts)
Join(parts, sep) ==
    IF parts = <<>> THEN <<>>
    ELSE IF Len(parts) = 1 THEN parts[1]
    ELSE parts[1] \o sep \o Join(Tail(parts), sep)

\* the line for one Apollo value, no line when the value is falsy
ApolloLine(label, value) == IF Truthy(value) THEN <<<<label>> \o value[1]>> ELSE <<>>

\* lines 478-480
LocationParts(enr) ==
    (IF Truthy(EGet(enr, "city")) THEN <<EGet(enr, "city")[1]>> ELSE <<>>)
    \o (IF Truthy(EGet(enr, "state")) THEN <<EGet(enr, "state")[1]>> ELSE <<>>)
    \o (IF Truthy(EGet(enr, "country")) THEN <<EGet(enr, "country")[1]>> ELSE <<>>)

\* lines 469-480
ApolloLines(enr) ==
    ApolloLine("Title: ", EGet(enr, "title"))
    \o ApolloLine("Email: ", EGet(enr, "email"))
    \o ApolloLine("LinkedIn: ", EGet(enr, "linkedin_url"))
    \o ApolloLine("Company site: ", EGet(enr, "company_website"))
    \o (IF LocationParts(enr) # <<>>
        THEN <<<<"Location: ">> \o Join(LocationParts(enr), <<", ">>)>> ELSE <<>>)

\* Section without its condition: the section is always written
SectionAlways(present, title, text) ==
    <<_notion_heading(<<title>>)>> \o _notion_paragraph(text)

\* one optional section: a heading and the paragraphs of its text
Section(present, title, text) ==
    IF present THEN <<_notion_heading(<<title>>)>> \o _notion_paragraph(text) ELSE <<>>

\* the dossier is rendered (if dossier:)
HasDossier(dos) == Truthy(dos)

\* lines 443-482
Children(par, enr, raw, dos) ==
    (IF HasDossier(dos)
     THEN <<_notion_heading(<<"Dossier">>)>> \o _markdown_to_notion_blocks(dos[1])
          \o <<Block("divider", <<>>)>>
     ELSE <<>>)
    \o Section(Truthy(par.context), "Meeting Notes", OrText(par.context, None))
    \o Section(Truthy(par.event), "Met At", OrText(par.event, None))
    \o Section(Truthy(par.follow_up) /\ ~ HasDossier(dos), "Suggested Follow-Up",
               OrText(par.follow_up, None))
    \o Section(TRUE, "Raw Note", raw)
    \o (IF enr # None
        THEN <<_notion_heading(<<"Apollo Data">>)>>
             \o (IF ApolloLines(enr) # <<>>
                 THEN _notion_paragraph(Join(ApolloLines(enr), <<"\n">>)) ELSE <<>>)
        ELSE <<>>)

\* the page create_notion_contact posts (lines 418-496), without Date Met
NotionPage(par, enr, raw, src, dos) ==
    [ Name     |-> OrText(par.name, Some(<<"Unknown Contact">>)),
      Company  |-> OrText(EGet(enr, "company"), par.company),
      Title    |-> OrText(EGet(enr, "title"), par.title),
      Source   |-> src,
      Status   |-> "New",
      ApolloEnriched |-> enr # None,
      Email    |-> IF OrText(EGet(enr, "email"), par.email) # <<>>
                   THEN Some(OrText(EGet(enr, "email"), par.email)) ELSE None,
      LinkedIn |-> IF OrText(EGet(enr, "linkedin_url"), None) # <<>>
                   THEN Some(OrText(EGet(enr, "linkedin_url"), None)) ELSE None,
      children |-> Children(par, enr, raw, dos) ]

\* ------------------------------------------------------------------- main
\* a new update reaches the inbox (between runs; an update arriving during a
\* run is not in the fetched batch and is not covered by its offset)
Arrive ==
    /\ pc = "idle"
    /\ cursor + Len(server) <= MaxUpdates
    /\ \E m \in MsgShapes :
         server' = Append(server, [update_id |-> cursor + Len(server), message |-> m])
    /\ UNCHANGED <<config, cursor, store, runs, pc, updates, idx, processed,
                   attempted, ackLog, calls, posted, frame>>

\* get_updates() (lines 39-43): the updates the inbox holds
get_updates == server

\* the per-run bookkeeping of a fresh main()
StartRun(batch, next) ==
    /\ runs' = IF batch = <<>> THEN runs ELSE runs + 1
    /\ updates' = batch
    /\ idx' = 1
    /\ processed' = 0
    /\ attempted' = <<>>
    /\ ackLog' = <<>>
    /\ calls' = <<>>
    /\ posted' = None
    /\ pc' = next

\* main up to the for loop (lines 667-677): get_updates raises and ends the
\* run, or returns nothing and main returns, or the loop is entered
GetUpdates ==
    /\ pc = "idle"
    /\ runs < MaxRuns
    /\ \E out \in {"ok", "raise"} :
         IF out = "raise" THEN StartRun(<<>>, "idle")
         ELSE IF get_updates = <<>> THEN StartRun(<<>>, "idle")
         ELSE StartRun(get_updates, "loop")
    /\ UNCHANGED <<config, server, cursor, store, frame>>

\* LoopDone as a loop that stops after its first update
LoopDoneAfterFirst == idx > 1

\* the for loop has run over every update of the batch (line 678)
LoopDone == idx > Len(updates)

\* AfterUpdate as a loop without the except clause: an exception ends main
AfterUpdateStopOnRaise(result) == IF result = "raised" THEN "exit" ELSE "loop"

\* where main is after a process_update call that ended with this result:
\* the except clause of lines 682-685 logs and the loop goes on
AfterUpdate(result) == "loop"

\* process_update(update) is left with this result, after the calls c
Finish(result, c) ==
    /\ calls' = c
    /\ attempted' = Append(attempted, updates[idx].update_id)
    /\ pc' = result
    /\ UNCHANGED <<updates, idx, processed, ackLog, posted, frame>>

\* main after process_update(update) is left (lines 678-685): a return is
\* counted, an exception is logged, and the loop takes the next update
Advance ==
    /\ pc \in {"returned", "raised"}
    /\ processed' = IF pc = "returned" THEN processed + 1 ELSE processed
    /\ idx' = idx + 1
    /\ pc' = AfterUpdate(pc)
    /\ calls' = <<>>
    /\ posted' = None
    /\ frame' = NoFrame
    /\ UNCHANGED <<config, server, cursor, store, runs, updates, attempted, ackLog>>

\* process_update returns / an exception leaves process_update
Return(c) == Finish("returned", c)
Raise(c)  == Finish("raised", c)

\* process_update goes on to its next stage with locals f
Goto(c, f, next) ==
    /\ calls' = c
    /\ frame' = f
    /\ pc' = next
    /\ UNCHANGED <<updates, idx, processed, attempted, ackLog, posted>>

\* a stage of process_update that leaves the inbox and the database alone
Quiet == UNCHANGED <<config, server, cursor, store, runs>>

\* a send_message call in tail position: its exception leaves process_update
SendThenReturn(c, text) ==
    \E s \in SendOutcomes :
        IF s = "raise" THEN Raise(Append(c, send_message(text, s)))
        ELSE Return(Append(c, send_message(text, s)))

\* AckOffset taken from the first update of the batch instead of the last
AckOffsetFirst(batch) == Head(batch).update_id + 1

\* the offset main passes to confirm_updates (lines 687-688)
AckOffset(batch) == Last(batch).update_id + 1

\* confirm_updates with an inbox that keeps the update just below the offset
confirm_updatesKeepLast(offset, out) ==
    IF out = "ok" /\ offset - 1 > cursor THEN offset - 1 ELSE cursor

\* confirm_updates(offset) (lines 46-48): the inbox cursor after the request;
\* an offset the inbox accepted moves it, and the response is not looked at
confirm_updates(offset, out) == IF out = "ok" /\ offset > cursor THEN offset ELSE cursor

\* main after the for loop (lines 687-689): the request is accepted, answered
\* with an error status, or raises
Acknowledge ==
    /\ pc = "loop"
    /\ LoopDone
    /\ \E out \in {"ok", "http_error", "raise"} :
         /\ cursor' = confirm_updates(AckOffset(updates), out)
         /\ server' = SelectFrom(server, confirm_updates(AckOffset(updates), out))
         /\ ackLog' = Append(ackLog, [offset |-> AckOffset(updates), out |-> out])
    /\ pc' = "exit"
    /\ UNCHANGED <<config, store, runs, updates, idx, processed, attempted,
                   calls, posted, frame>>

\* main returns (line 689) and the process ends: its locals are gone
Exit ==
    /\ pc = "exit"
    /\ pc' = "idle"
    /\ updates' = <<>>
    /\ idx' = 1
    /\ processed' = 0
    /\ attempted' = <<>>
    /\ ackLog' = <<>>
    /\ UNCHANGED <<config, server, cursor, store, runs, calls, posted, frame>>

\* --------------------------------------------------------- process_update
CardText   == <<"Met Jane Doe, VP Eng at Acme Corp.">>
SpokenText == <<"just met Jane Doe from Acme">>

\* raw_text of a business card: the card text merged with the caption (lines 529-534)
CardNote(text, caption) ==
    IF caption # <<>> THEN text \o <<"\nAdditional context: ">> \o caption ELSE text

\* Pipeline entered at the extraction, past the "Processing" notice
PipelineNoNotice(c, raw, src) == Goto(c, Frame(raw, src), "extract")

\* Pipeline entered with the preview of the note in place of the note
PipelinePreview(c, raw, src) == Goto(c, Frame(raw \o <<"...">>, src), "notice")

\* the processing pipeline (lines 579-664) is entered with a raw note
Pipeline(c, raw, src) == Goto(c, Frame(raw, src), "notice")

\* business card photo (lines 521-536)
ResolvePhoto(m) ==
    \/ Raise(<<Call("download_file", <<"photo">>, "raise")>>)
    \/ Raise(<<Call("download_file", <<"photo">>, "ok"),
               Call("extract_business_card", <<>>, "raise")>>)
    \/ Pipeline(<<Call("download_file", <<"photo">>, "ok"),
                  Call("extract_business_card", <<>>, "ok")>>,
                CardNote(CardText, m.caption), "Business Card")

\* ResolveVoice without the OPENAI_API_KEY check of line 541
ResolveVoiceUnchecked(m) ==
    \/ Raise(<<Call("download_file", <<"voice">>, "raise")>>)
    \/ Pipeline(<<Call("download_file", <<"voice">>, "ok"),
                  Call("transcribe_audio", <<>>, "text")>>,
                SpokenText, "Voice Note")

\* voice note (lines 538-556)
ResolveVoice(m) ==
    IF ~ config.OPENAI_API_KEY
    THEN SendThenReturn(<<>>, "voice_unavailable")
    ELSE \/ Raise(<<Call("download_file", <<"voice">>, "raise")>>)
         \/ Raise(<<Call("download_file", <<"voice">>, "ok"),
                    Call("transcribe_audio", <<>>, "raise")>>)
         \/ SendThenReturn(<<Call("download_file", <<"voice">>, "ok"),
                             Call("transcribe_audio", <<>>, "empty")>>,
                           "transcribe_failed")
         \/ Pipeline(<<Call("download_file", <<"voice">>, "ok"),
                       Call("transcribe_audio", <<>>, "text")>>,
                     SpokenText, "Voice Note")

\* IsHelpCommand without the strip: the text itself is compared
IsHelpCommandExact(text) == text \in {StartCmd, HelpCmd}

\* the help reply is sent for this command text (line 563)
IsHelpCommand(text) == Strip(text) \in {StartCmd, HelpCmd}

\* text message (lines 558-575)
ResolveText(m) ==
    IF StartsWith(m.text, "/")
    THEN IF IsHelpCommand(m.text) THEN SendThenReturn(<<>>, "help")
         ELSE Return(<<>>)
    ELSE Pipeline(<<>>, m.text, "Text")

\* Authorized without the allow-list: every chat with an id is let through
AuthorizedAnyChat(chat) == chat # NoChat

\* the chat is let through by the checks of lines 508-513
Authorized(chat) ==
    /\ chat # NoChat
    /\ ~ (config.TELEGRAM_CHAT_ID # "" /\ chat # config.TELEGRAM_CHAT_ID)

\* process_update from its entry to the processing pipeline (lines 503-577)
Resolve ==
    /\ pc = "loop"
    /\ ~ LoopDone
    /\ LET m == updates[idx].message IN
         IF ~ Authorized(m.chat) THEN Return(<<>>)
         ELSE IF m.photo THEN ResolvePhoto(m)
         ELSE IF m.voice THEN ResolveVoice(m)
         ELSE IF m.text # <<>> THEN ResolveText(m)
         ELSE Return(<<>>)
    /\ Quiet

\* ErrorPolicy without the try blocks around the optional stages
ErrorPolicyNoSoftFail(stage) ==
    CASE stage \in {"parse_contact", "create_notion_contact"} -> "notify"
      [] OTHER -> "propagate"

\* ErrorPolicy with the database write handled like an optional stage
ErrorPolicyPersistContinues(stage) ==
    CASE stage = "parse_contact" -> "notify"
      [] stage \in {"enrich_with_apollo", "exa_research", "synthesize_dossier",
                    "create_notion_contact"} -> "continue"
      [] OTHER -> "propagate"

\* what process_update does when the call of a stage raises: the try blocks
\* of lines 585-591 and 633-639 tell the sender and return, those of lines
\* 597-607, 613-619 and 625-629 log and go on, and nothing catches the rest
ErrorPolicy(stage) ==
    CASE stage \in {"parse_contact", "create_notion_contact"} -> "notify"
      [] stage \in {"enrich_with_apollo", "exa_research", "synthesize_dossier"} -> "continue"
      [] OTHER -> "propagate"

\* the call of a stage has raised
StageRaised(stage, c, notice, next) ==
    CASE ErrorPolicy(stage) = "notify"    -> SendThenReturn(c, notice)
      [] ErrorPolicy(stage) = "continue"  -> Goto(c, frame, next)
      [] ErrorPolicy(stage) = "propagate" -> Raise(c)

\* "Processing: ..." notice (lines 579-581)
Notice ==
    /\ pc = "notice"
    /\ \E s \in SendOutcomes :
         LET c == Append(calls, send_message("processing", s)) IN
         IF s = "raise" THEN StageRaised("send_message", c, "", "extract")
         ELSE Goto(c, frame, "extract")
    /\ Quiet

\* 1. Parse with Claude (lines 583-591): an exception of parse_contact is
\* answered with the apology; a parsed value that is not a dict is returned
\* by parse_contact and parsed.get raises on it at line 595, outside every try
Extract ==
    /\ pc = "extract"
    /\ \E resp \in ExtractOutcomes :
         LET r == IF resp = ApiError THEN [out |-> "raise", value |-> None]
                  ELSE parse_contact(resp)
             c == Append(calls, Call("parse_contact", frame.raw_text, r.out))
         IN CASE r.out = "raise"    -> StageRaised("parse_contact", c, "apology", "enrich")
              [] r.out = "non_dict" -> StageRaised("parsed.get", c, "", "enrich")
              [] r.out = "dict"     -> Goto(c, [frame EXCEPT !.parsed = r.value], "enrich")
    /\ Quiet

\* HasName as a test for the key being set, whatever its value
HasNameKey(parsed) == parsed.name # None

\* the contact has a name to look up (lines 595 and 611)
HasName(parsed) == Truthy(parsed.name)

\* 2. Enrich with Apollo (lines 593-607)
Enrich ==
    /\ pc = "enrich"
    /\ IF HasName(frame.parsed[1])
       THEN \E resp \in ApolloResponses :
              LET r == enrich_with_apollo(resp)
                  c == Append(calls, Call("enrich_with_apollo", frame.parsed[1].name[1], r.out))
              IN IF r.out = "raise"
                 THEN StageRaised("enrich_with_apollo", c, "", "research")
                 ELSE Goto(c, [frame EXCEPT !.enriched = r.value], "research")
       ELSE Goto(calls, frame, "research")
    /\ Quiet

\* 3. Research with Exa (lines 609-619)
Research ==
    /\ pc = "research"
    /\ IF HasName(frame.parsed[1])
       THEN \E resps \in [1..NumQueries(frame.parsed[1].company) -> ExaResponses] :
              LET r == exa_research(resps)
                  c == Append(calls, Call("exa_research", frame.parsed[1].name[1], r.out))
              IN Goto(c, [frame EXCEPT !.exa_results = r.value], "synthesize")
       ELSE Goto(calls, frame, "synthesize")
    /\ Quiet

\* 4. Synthesize dossier (lines 621-629)
Synthesize ==
    /\ pc = "synthesize"
    /\ IF ShouldSynthesize(frame.exa_results, frame.enriched)
       THEN \/ StageRaised("synthesize_dossier",
                           Append(calls, Call("synthesize_dossier", frame.raw_text, "raise")),
                           "", "persist")
            \/ \E d \in DossierResponses :
                 Goto(Append(calls, Call("synthesize_dossier", frame.raw_text, "ok")),
                      [frame EXCEPT !.dossier = Some(d)], "persist")
       ELSE Goto(calls, frame, "persist")
    /\ Quiet

\* 5. Create Notion contact card (lines 631-639): the request creates the
\* page, or raises and creates nothing
Persist ==
    /\ pc = "persist"
    /\ \/ /\ calls' = Append(calls, Call("create_notion_contact", frame.raw_text, "ok"))
          /\ posted' = Some(NotionPage(frame.parsed[1], frame.enriched, frame.raw_text,
                                       frame.source, frame.dossier))
          /\ store' = store (+) SetToBag({updates[idx].update_id})
          /\ pc' = "confirm"
          /\ UNCHANGED <<frame, updates, idx, processed, attempted, ackLog>>
       \/ /\ StageRaised("create_notion_contact",
                         Append(calls, Call("create_notion_contact", frame.raw_text, "raise")),
                         "not_saved", "confirm")
          /\ UNCHANGED store
    /\ UNCHANGED <<config, server, cursor, runs>>

\* Confirm without its send_message call
ConfirmSkipped ==
    /\ pc = "confirm"
    /\ Return(calls)
    /\ Quiet

\* 6. Send confirmation back to Telegram (lines 641-664)
Confirm ==
    /\ pc = "confirm"
    /\ SendThenReturn(calls, "confirmation")
    /\ Quiet

\* --------------------------------------------------------- specification
Next ==
    \/ Arrive
    \/ GetUpdates
    \/ Resolve
    \/ Notice
    \/ Extract
    \/ Enrich
    \/ Research
    \/ Synthesize
    \/ Persist
    \/ Confirm
    \/ Advance
    \/ Acknowledge
    \/ Exit

Spec == Init /\ [][Next]_vars

\* ------------------------------------------- specification: exa_research
\* exa_research alone, over every answer its search requests can get
MaxResults == 2

ParsedNoCompany ==
    Contact(Some(<<"Jane Doe">>), None, None, None, None, None, None, None)

\* result items: two titles make two items of one url distinguishable
ExaItems == { Result(t, u, "") : t \in {"first", "second"}, u \in {"a.com", "b.com"} }

\* the lists of at most MaxResults items
ResultLists == UNION { [1..n -> ExaItems] : n \in 0..MaxResults }

ExaResponsesWide ==
    { [status |-> "raise", results |-> <<>>],
      [status |-> "500", results |-> <<>>] }
    \cup { [status |-> "200", results |-> rs] : rs \in ResultLists }

\* process_update has reached step 3 for a text message of the owner
InitExa ==
    /\ config \in Configs
    /\ server = <<[update_id |-> 1, message |-> Message(OwnerChat, FALSE, FALSE, NoteText, <<>>)]>>
    /\ cursor = 1
    /\ store = EmptyBag
    /\ runs = 1
    /\ pc = "research"
    /\ updates = server
    /\ idx = 1
    /\ processed = 0
    /\ attempted = <<>>
    /\ ackLog = <<>>
    /\ calls = <<>>
    /\ posted = None
    /\ \E p \in {ParsedFull, ParsedNoCompany} :
         frame = [Frame(NoteText, "Text") EXCEPT !.parsed = Some(p)]

\* the exa_research call of line 611; the call is recorded with the answers
\* its search requests got
ExaCall ==
    /\ pc = "research"
    /\ \E resps \in [1..NumQueries(frame.parsed[1].company) -> ExaResponsesWide] :
         LET r == exa_research(resps)
         IN Goto(<<Call("exa_research", resps, r.out)>>,
                 [frame EXCEPT !.exa_results = r.value], "synthesize")
    /\ Quiet

NextExa == ExaCall

SpecExa == InitExa /\ [][NextExa]_vars

\* ------------------------------------------ specification: the page body
\* create_notion_contact alone, for notes and dossier lines around the length
\* limit of a run
MaxChunks == 2

\* a text of n word units
LongText(n) == [i \in 1..n |-> <<"a", "b", "c", "d", "e", "f", "g">>[(i % 7) + 1]]

\* lengths at and just above the multiples of the limit
TextLens == {1} \cup { k * MaxRunLen + d : k \in 1..MaxChunks, d \in {0, 1} }

RawNotes == { LongText(n) : n \in TextLens }

\* one-line dossiers: a plain line, the three heading forms, a bullet and a
\* line with an inline bold part
DossierLines ==
    UNION { { LongText(n),
              <<"#", " ">> \o LongText(n),
              <<"#", "#", " ">> \o LongText(n),
              <<"*", "*">> \o LongText(n) \o <<"*", "*">>,
              <<"-", " ">> \o LongText(n),
              LongText(1) \o <<"*", "*">> \o LongText(n) \o <<"*", "*">> } : n \in TextLens }

\* process_update has reached step 5 for a text message of the owner; the
\* research found results, and the synthesis failed or returned one line
InitBlocks ==
    /\ config = Config(OwnerChat, TRUE, TRUE, TRUE)
    /\ cursor = 1
    /\ store = EmptyBag
    /\ runs = 1
    /\ pc = "persist"
    /\ idx = 1
    /\ processed = 0
    /\ attempted = <<>>
    /\ ackLog = <<>>
    /\ calls = <<>>
    /\ posted = None
    /\ \E raw \in RawNotes, dos \in {None} \cup { Some(d) : d \in DossierLines } :
         /\ server = <<[update_id |-> 1, message |-> Message(OwnerChat, FALSE, FALSE, raw, <<>>)]>>
         /\ updates = server
         /\ frame = [Frame(raw, "Text") EXCEPT !.parsed = Some(ParsedNoCompany),
                                               !.exa_results = <<ResA, ResB>>,
                                               !.dossier = dos]

NextBlocks ==
    \/ Persist
    \/ Confirm

SpecBlocks == InitBlocks /\ [][NextBlocks]_vars

\* ------------------------------------------ specification: one batch
\* one run of main from the for loop on: get_updates has returned a batch of
\* up to MaxUpdates updates, every one of them still in the inbox
InitBatch ==
    /\ config \in Configs
    /\ cursor = 1
    /\ store = EmptyBag
    /\ runs = 1
    /\ pc = "loop"
    /\ idx = 1
    /\ processed = 0
    /\ attempted = <<>>
    /\ ackLog = <<>>
    /\ calls = <<>>
    /\ posted = None
    /\ frame = NoFrame
    /\ \E n \in 1..MaxUpdates : \E ms \in [1..n -> MsgShapes] :
         server = [i \in 1..n |-> [update_id |-> i, message |-> ms[i]]]
    /\ updates = server

NextBatch ==
    \/ Resolve
    \/ Notice
    \/ Extract
    \/ Enrich
    \/ Research
    \/ Synthesize
    \/ Persist
    \/ Confirm
    \/ Advance
    \/ Acknowledge
    \/ Exit

SpecBatch == InitBatch /\ [][NextBatch]_vars

\* ------------------------------------------------------------ properties
\* what the calls of the current process_update call show
Made(op)          == \E i \in 1..Len(calls) : calls[i].op = op
MadeWith(op, out) == \E i \in 1..Len(calls) : calls[i].op = op /\ calls[i].out = out
Count(op)         == Cardinality({i \in 1..Len(calls) : calls[i].op = op})
Sent(text)        == \E i \in 1..Len(calls) : calls[i].op = "send_message" /\ calls[i].arg = <<text>>

\* process_update has just been left, by a return or by an exception
Ended == pc \in {"returned", "raised"}

\* the update_ids of a batch, in fetch order
Ids(batch) == [i \in 1..Len(batch) |-> batch[i].update_id]

\* C1: in a run that fetched a non-empty batch confirm_updates is called
\* exactly once, and only after every message of the batch has been
\* attempted: never before or between the attempts, and main does not end
\* without it.
C1_AckOnceAfterAllAttempts ==
    /\ Len(ackLog) <= 1
    /\ ackLog # <<>> => updates # <<>> /\ attempted = Ids(updates)
    /\ pc \notin {"idle", "exit"} => ackLog = <<>>
    /\ pc = "exit" => Len(ackLog) = 1

C1_Witness ==
    /\ pc = "exit"
    /\ Len(updates) = 2
    /\ Len(ackLog) = 1

\* C2: the offset passed to confirm_updates is the highest update_id of the
\* fetched batch plus one, whatever the outcomes of the messages were.
C2_AckOffsetIsHighestPlusOne ==
    \A i \in 1..Len(ackLog) :
        /\ \A j \in 1..Len(updates) : updates[j].update_id < ackLog[i].offset
        /\ \E j \in 1..Len(updates) : updates[j].update_id + 1 = ackLog[i].offset

C2_Witness ==
    /\ ackLog # <<>>
    /\ Len(updates) = 2
    /\ processed = 1

\* C3: an exception in one message never aborts the batch: the messages are
\* attempted once each in fetch order, the loop goes on after a message whose
\* processing raised, and main ends only with every message attempted and
\* the batch acknowledged.
C3_FailureNeverAbortsBatch ==
    /\ Len(attempted) <= Len(updates)
    /\ attempted = SubSeq(Ids(updates), 1, Len(attempted))
    /\ pc # "idle" => Len(attempted) = (IF Ended THEN idx ELSE idx - 1)
    /\ pc = "exit" => attempted = Ids(updates) /\ ackLog # <<>>

C3_Witness ==
    /\ pc = "exit"
    /\ Len(updates) = 2
    /\ processed = 0
    /\ attempted = Ids(updates)
    /\ ackLog # <<>>

\* C4 (as claimed): over any sequence of runs, a failing acknowledge request
\* included, at most one record is created for an inbound message: a message
\* with a record is not returned by a later poll and gets no second record.
C4_AtMostOneRecordPerMessage ==
    /\ \A id \in 1..MaxUpdates : CopiesIn(id, store) <= 1
    /\ pc = "idle" => \A i \in 1..Len(get_updates) :
                          CopiesIn(get_updates[i].update_id, store) = 0

\* C5 (as claimed): an extraction response that cannot be parsed as an
\* object, malformed JSON or JSON whose top level is no object, aborts the
\* message: the apology is sent and no enrichment, research, synthesis or
\* persistence call is made.
C5_UnparsableResponseGetsApology ==
    Ended /\ (MadeWith("parse_contact", "raise") \/ MadeWith("parse_contact", "non_dict"))
    => /\ Sent("apology")
       /\ ~ Made("enrich_with_apollo")
       /\ ~ Made("exa_research")
       /\ ~ Made("synthesize_dossier")
       /\ ~ Made("create_notion_contact")
       /\ posted = None

\* C6 (as claimed): a send_message call that fails never aborts the pipeline
\* of its message, the "Processing" notice included: the stages after the
\* failed send are still run.
C6_SendFailureNeverAborts ==
    Ended /\ (\E i \in 1..Len(calls) : calls[i] = send_message("processing", "raise"))
    => Made("parse_contact")

\* C7: enrichment, research and synthesis are soft-fail stages: after a
\* successful extraction a failure of one of them (an exception or a status
\* that is not 200) never keeps the persistence call from being made, and the
\* record is created without the contribution of the failed stage: no
\* enrichment and Apollo Enriched false, no results of a failed query, no
\* dossier.
C7_SoftFailStages ==
    /\ Ended /\ ( MadeWith("enrich_with_apollo", "raise")
                  \/ MadeWith("enrich_with_apollo", "http_error")
                  \/ MadeWith("exa_research", "some_failed")
                  \/ MadeWith("exa_research", "all_failed")
                  \/ MadeWith("synthesize_dossier", "raise") )
       => Made("create_notion_contact")
    /\ posted # None /\ ( MadeWith("enrich_with_apollo", "raise")
                          \/ MadeWith("enrich_with_apollo", "http_error") )
       => frame.enriched = None /\ posted[1].ApolloEnriched = FALSE
    /\ posted # None /\ MadeWith("exa_research", "all_failed")
       => frame.exa_results = <<>>
    /\ posted # None /\ MadeWith("synthesize_dossier", "raise")
       => /\ frame.dossier = None
          /\ \A i \in 1..Len(posted[1].children) :
               posted[1].children[i] # _notion_heading(<<"Dossier">>)

C7_Witness ==
    /\ pc = "returned"
    /\ posted # None
    /\ MadeWith("enrich_with_apollo", "http_error")
    /\ MadeWith("exa_research", "some_failed")
    /\ MadeWith("synthesize_dossier", "raise")

\* C8 (as claimed): every hard failure of a message, a failed attachment
\* download, a failed extraction or a failed database write, is followed by a
\* notice to the sender before main goes on to the next message.
C8_HardFailureNotifiesSender ==
    Ended => \A i \in 1..Len(calls) :
               /\ calls[i].op \in {"download_file", "parse_contact", "create_notion_contact"}
               /\ calls[i].out = "raise"
               => \E j \in (i + 1)..Len(calls) : calls[j].op = "send_message"

\* C9: when the database write fails, the "parsed but not saved" notice is
\* sent, no confirmation is sent, and the write is not tried again: the
\* persistence call is made at most once per message.
C9_PersistFailureNotice ==
    /\ Count("create_notion_contact") <= 1
    /\ Ended /\ MadeWith("create_notion_contact", "raise")
       => /\ Sent("not_saved")
          /\ ~ Sent("confirmation")
          /\ posted = None

C9_Witness ==
    /\ pc = "returned"
    /\ MadeWith("create_notion_contact", "raise")
    /\ calls[Len(calls)] = send_message("not_saved", "ok")

\* C10: a parsed contact without a name (the key absent or null, or an empty
\* string) gets no enrichment and no research call, and the persistence call
\* is still made.
C10_NoNameSkipsLookups ==
    frame.parsed # None /\ ~ Truthy(frame.parsed[1].name)
    => /\ ~ Made("enrich_with_apollo")
       /\ ~ Made("exa_research")
       /\ Ended => Made("create_notion_contact")

C10_Witness ==
    /\ pc = "returned"
    /\ frame.parsed = Some(ParsedEmptyName)
    /\ posted # None
    /\ ~ Made("enrich_with_apollo")

\* the page has a Dossier section
HasDossierSection(page) ==
    \E i \in 1..Len(page.children) : page.children[i] = _notion_heading(<<"Dossier">>)

\* C11: synthesize_dossier is called for a message if and only if enrichment
\* returned a match or research returned at least one result; so every page
\* created with no enrichment and no results has no Dossier section.
C11_SynthesisIffEvidence ==
    /\ pc \in {"persist", "confirm"} \/ (Ended /\ Made("create_notion_contact"))
       => (Made("synthesize_dossier")
           <=> (frame.enriched # None \/ frame.exa_results # <<>>))
    /\ Made("synthesize_dossier") => frame.enriched # None \/ frame.exa_results # <<>>
    /\ posted # None /\ frame.enriched = None /\ frame.exa_results = <<>>
       => frame.dossier = None /\ ~ HasDossierSection(posted[1])

C11_Witness ==
    /\ pc = "returned"
    /\ posted # None
    /\ MadeWith("enrich_with_apollo", "no_match")
    /\ MadeWith("exa_research", "all_failed")
    /\ ~ Made("synthesize_dossier")
    /\ ~ HasDossierSection(posted[1])

\* main is inside a process_update call or has just left it
InMessage == pc \notin {"idle", "loop", "exit"}

\* the update is from a chat other than the configured one
FromOtherChat(u) ==
    /\ config.TELEGRAM_CHAT_ID # ""
    /\ u.message.chat # config.TELEGRAM_CHAT_ID

\* C12: with an allow-listed chat configured, a message from another chat is
\* dropped silently: process_update returns with no download, no stage call,
\* no page and no outbound message; the message is still covered by the
\* offset of the batch, and gone from the inbox once that offset is accepted.
C12_OtherChatDroppedSilently ==
    /\ InMessage /\ FromOtherChat(updates[idx])
       => pc = "returned" /\ calls = <<>> /\ posted = None
    /\ \A i \in 1..Len(updates) :
         FromOtherChat(updates[i])
         => /\ CopiesIn(updates[i].update_id, store) = 0
            /\ \A k \in 1..Len(ackLog) :
                 /\ updates[i].update_id < ackLog[k].offset
                 /\ ackLog[k].out = "ok"
                    => \A j \in 1..Len(server) : server[j].update_id # updates[i].update_id

C12_Witness ==
    /\ pc = "exit"
    /\ \E i \in 1..Len(updates) : FromOtherChat(updates[i])
    /\ processed = Len(updates)
    /\ ackLog # <<>> /\ ackLog[1].out = "ok"
    /\ server = <<>>

\* the update is handled by the voice branch of process_update while no
\* transcription key is configured
VoiceWithoutKey(u) ==
    /\ ~ config.OPENAI_API_KEY
    /\ ~ FromOtherChat(u)
    /\ u.message.chat # NoChat
    /\ ~ u.message.photo
    /\ u.message.voice

\* C13: a voice message that arrives while OPENAI_API_KEY is unset gets the
\* "voice notes need OPENAI_API_KEY" notice and nothing else: no download, no
\* transcription, no extraction call, no page; the message is still covered
\* by the offset of the batch.
C13_VoiceWithoutKeyGetsNotice ==
    /\ InMessage /\ VoiceWithoutKey(updates[idx])
       => /\ Ended
          /\ Len(calls) = 1
          /\ calls[1].op = "send_message" /\ calls[1].arg = <<"voice_unavailable">>
          /\ (pc = "returned") = (calls[1].out = "ok")
          /\ posted = None
    /\ \A i \in 1..Len(updates) :
         VoiceWithoutKey(updates[i])
         => /\ CopiesIn(updates[i].update_id, store) = 0
            /\ \A k \in 1..Len(ackLog) : updates[i].update_id < ackLog[k].offset

C13_Witness ==
    /\ pc = "exit"
    /\ \E i \in 1..Len(updates) : VoiceWithoutKey(updates[i])
    /\ processed = Len(updates)
    /\ ackLog # <<>> /\ ackLog[1].out = "ok"

\* the inbox and the fetched batch hold no update below the cursor, and after
\* an accepted confirm_updates(k) the cursor is at k and the same request
\* again leaves cursor and inbox as they are
AckedStaysAcked ==
    /\ \A j \in 1..Len(server) : server[j].update_id >= cursor
    /\ pc \notin {"idle", "exit"}
       => \A i \in 1..Len(updates) : updates[i].update_id >= cursor
    /\ \A k \in 1..Len(ackLog) :
         ackLog[k].out = "ok"
         => /\ cursor >= ackLog[k].offset
            /\ confirm_updates(ackLog[k].offset, "ok") = cursor
            /\ SelectFrom(server, confirm_updates(ackLog[k].offset, "ok")) = server
            /\ \A i \in 1..Len(updates) : updates[i].update_id < cursor

\* C14: once confirm_updates(k) has been accepted, the same request again
\* changes nothing, the cursor never moves back, and no later get_updates
\* returns (so no later run processes) an update with update_id < k.
C14_AckIdempotent ==
    /\ [] AckedStaysAcked
    /\ [][cursor' >= cursor]_vars

C14_Witness ==
    /\ runs = 2
    /\ pc = "loop"
    /\ cursor > 1
    /\ updates # <<>>
    /\ updates[1].update_id = cursor

RECURSIVE Flatten(_)
\* the results of the answered requests, in request order and then in rank order
Flatten(resps) ==
    IF resps = <<>> THEN <<>>
    ELSE (IF Head(resps).status = "200" THEN Head(resps).results ELSE <<>>)
         \o Flatten(Tail(resps))

\* the position of the first item of s with this url
FirstPos(s, url) == CHOOSE k \in 1..Len(s) : s[k].url = url /\ \A j \in 1..(k - 1) : s[j].url # url

\* C15: the list exa_research returns has no url twice, holds for every url
\* found its first occurrence (earliest query, then lowest rank), and keeps
\* the items in the order of those first occurrences.
C15_ResearchDedupesInOrder ==
    pc = "synthesize" /\ calls # <<>> /\ calls[1].op = "exa_research" /\ calls[1].out # "no_key"
    => LET all == Flatten(calls[1].arg)
           res == frame.exa_results
       IN /\ \A i, j \in 1..Len(res) : i < j => res[i].url # res[j].url
          /\ \A i \in 1..Len(res) :
               /\ \E k \in 1..Len(all) : all[k].url = res[i].url
               /\ res[i] = all[FirstPos(all, res[i].url)]
          /\ \A i, j \in 1..Len(res) :
               i < j => FirstPos(all, res[i].url) < FirstPos(all, res[j].url)
          /\ \A k \in 1..Len(all) : \E i \in 1..Len(res) : res[i].url = all[k].url

C15_Witness ==
    /\ pc = "synthesize"
    /\ calls # <<>> /\ calls[1].op = "exa_research"
    /\ Len(calls[1].arg) = 2
    /\ calls[1].arg[1].status = "200" /\ calls[1].arg[2].status = "200"
    /\ calls[1].arg[1].results = <<Result("first", "a.com", ""), Result("second", "a.com", "")>>
    /\ calls[1].arg[2].results = <<Result("second", "b.com", ""), Result("second", "a.com", "")>>
    /\ frame.exa_results = <<Result("first", "a.com", ""), Result("second", "b.com", "")>>

RECURSIVE ConcatContents(_)
\* the contents of a list of runs, concatenated in order
ConcatContents(rs) ==
    IF rs = <<>> THEN <<>> ELSE Head(rs).content \o ConcatContents(Tail(rs))

RECURSIVE ConcatRuns(_)
\* the contents of all runs of a list of blocks, concatenated in order
ConcatRuns(blocks) ==
    IF blocks = <<>> THEN <<>>
    ELSE ConcatContents(Head(blocks).rich_text) \o ConcatRuns(Tail(blocks))

\* position of the divider that closes the Dossier section, 0 if there is none
DividerPos(children) ==
    IF \E i \in 1..Len(children) : children[i].type = "divider"
    THEN CHOOSE i \in 1..Len(children) : children[i].type = "divider"
    ELSE 0

\* the paragraphs under the heading with this title, after the Dossier section
SectionBlocks(children, title) ==
    LET from == DividerPos(children) + 1
        hs == {i \in from..Len(children) : children[i] = _notion_heading(<<title>>)}
    IN IF hs = {} THEN <<>>
       ELSE LET h == CHOOSE i \in hs : \A j \in hs : i <= j
                ends == {k \in (h + 1)..Len(children) : children[k].type # "paragraph"}
                e == IF ends = {} THEN Len(children) + 1
                     ELSE CHOOSE k \in ends : \A j \in ends : k <= j
            IN SubSeq(children, h + 1, e - 1)

\* markup and layout units of a dossier
IsMarkup(u) == u \in {"*", "#", "-", " ", "\n"}
IsTextUnit(u) == ~ IsMarkup(u)

\* the text of a dossier: its units without markup and layout
TextUnits(t) == SelectSeq(t, IsTextUnit)

\* C16: every run of the page body is at most 2000 units long, and for a raw
\* note or a dossier text longer than 2000 units the runs written for it,
\* concatenated in order, are the text again: no unit dropped or duplicated.
C16_RunsSplitLosslessly ==
    posted # None
    => LET ch == posted[1].children IN
       /\ \A i \in 1..Len(ch) : \A r \in 1..Len(ch[i].rich_text) :
            Len(ch[i].rich_text[r].content) <= MaxRunLen
       /\ Len(frame.raw_text) > MaxRunLen
          => ConcatRuns(SectionBlocks(ch, "Raw Note")) = frame.raw_text
       /\ frame.dossier # None /\ Len(TextUnits(frame.dossier[1])) > MaxRunLen
          => ConcatRuns(SubSeq(ch, 2, DividerPos(ch) - 1)) = TextUnits(frame.dossier[1])

\* C17: the Name of every page created is the enriched name when enrichment
\* returned a person with a name, else the parsed name when there is one,
\* else "Unknown Contact".
C17_NameFallsBackFromEnriched ==
    posted # None
    => posted[1].Name =
         (IF Truthy(EGet(frame.enriched, "name")) THEN EGet(frame.enriched, "name")[1]
          ELSE IF Truthy(frame.parsed[1].name) THEN frame.parsed[1].name[1]
          ELSE <<"Unknown Contact">>)

\* the body after its Dossier section
AfterDossier(children) == SubSeq(children, DividerPos(children) + 1, Len(children))

RECURSIVE HeadingTitles(_)
\* the titles of the heading_3 blocks of a block list, in order
HeadingTitles(blocks) ==
    IF blocks = <<>> THEN <<>>
    ELSE (IF Head(blocks).type = "heading_3"
          THEN <<Head(blocks).rich_text[1].content[1]>> ELSE <<>>)
         \o HeadingTitles(Tail(blocks))

\* the section titles a page must have after its Dossier section
ExpectedTitles(par, enr, dos) ==
    (IF Truthy(par.context) THEN <<"Meeting Notes">> ELSE <<>>)
    \o (IF Truthy(par.event) THEN <<"Met At">> ELSE <<>>)
    \o (IF Truthy(par.follow_up) /\ dos = None THEN <<"Suggested Follow-Up">> ELSE <<>>)
    \o <<"Raw Note">>
    \o (IF enr # None THEN <<"Apollo Data">> ELSE <<>>)

\* C18: the body of every page created has its sections in the order Dossier
\* (closed by a divider), Meeting Notes, Met At, Suggested Follow-Up, Raw
\* Note, Apollo Data (the enrichment data), each one there exactly when: a
\* dossier exists; context is set; event is set; follow_up is set and no
\* dossier exists; always; enrichment returned a person.
C18_SectionOrder ==
    posted # None
    => LET ch == posted[1].children IN
       /\ (frame.dossier # None) = (ch[1] = _notion_heading(<<"Dossier">>))
       /\ (frame.dossier # None) = (DividerPos(ch) # 0)
       /\ HeadingTitles(AfterDossier(ch))
            = ExpectedTitles(frame.parsed[1], frame.enriched, frame.dossier)
       /\ \A i \in 1..Len(AfterDossier(ch)) :
            AfterDossier(ch)[i].type \in {"heading_3", "paragraph"}

C18_Witness ==
    /\ posted # None
    /\ frame.dossier # None
    /\ frame.enriched # None
    /\ Truthy(frame.parsed[1].follow_up)
    /\ DividerPos(posted[1].children) > 2
    /\ HeadingTitles(AfterDossier(posted[1].children))
         = <<"Meeting Notes", "Met At", "Raw Note", "Apollo Data">>

\* the update is a text message of an authorized chat that is not a command
PlainTextMessage(u) ==
    /\ u.message.chat # NoChat
    /\ ~ FromOtherChat(u)
    /\ ~ u.message.photo
    /\ ~ u.message.voice
    /\ u.message.text # <<>>
    /\ ~ StartsWith(u.message.text, "/")

\* C19: for a text message that does not start with "/" the raw note is the
\* message text, unchanged, with source "Text"; parse_contact,
\* synthesize_dossier and create_notion_contact are all called with that
\* text, and the page has Source "Text" and the text as its Raw Note.
C19_RawNoteIsTheText ==
    InMessage /\ PlainTextMessage(updates[idx])
    => /\ frame.raw_text = updates[idx].message.text
       /\ frame.source = "Text"
       /\ \A i \in 1..Len(calls) :
            calls[i].op \in {"parse_contact", "synthesize_dossier", "create_notion_contact"}
            => calls[i].arg = updates[idx].message.text
       /\ posted # None
          => /\ posted[1].Source = "Text"
             /\ ConcatRuns(SectionBlocks(posted[1].children, "Raw Note"))
                  = updates[idx].message.text

C19_Witness ==
    /\ pc = "returned"
    /\ PlainTextMessage(updates[idx])
    /\ MadeWith("parse_contact", "dict")
    /\ MadeWith("synthesize_dossier", "ok")
    /\ MadeWith("create_notion_contact", "ok")
    /\ posted # None
    /\ posted[1].Source = "Text"

\* neither the enrichment nor the research key is configured
NoOptionalKeys == ~ config.APOLLO_API_KEY /\ ~ config.EXA_API_KEY

\* C20: with APOLLO_API_KEY and EXA_API_KEY both unset, enrich_with_apollo and
\* exa_research return without a request and synthesize_dossier is not
\* called; a message whose extraction returned a contact still reaches
\* create_notion_contact, and the page it creates has Status "New", Apollo
\* Enriched false and no Dossier section.
C20_MissingKeysOnlyDisableStages ==
    NoOptionalKeys /\ InMessage
    => /\ \A i \in 1..Len(calls) :
            /\ calls[i].op \in {"enrich_with_apollo", "exa_research"} => calls[i].out = "no_key"
            /\ calls[i].op # "synthesize_dossier"
       /\ frame.enriched = None /\ frame.exa_results = <<>> /\ frame.dossier = None
       /\ MadeWith("parse_contact", "dict")
          => /\ pc \in {"enrich", "research", "synthesize", "persist"}
                \/ Made("create_notion_contact")
             /\ MadeWith("create_notion_contact", "ok")
                => /\ posted # None
                   /\ posted[1].Status = "New"
                   /\ posted[1].ApolloEnriched = FALSE
                   /\ ~ HasDossierSection(posted[1])
                   /\ CopiesIn(updates[idx].update_id, store) >= 1

C20_Witness ==
    /\ NoOptionalKeys
    /\ pc = "returned"
    /\ MadeWith("enrich_with_apollo", "no_key")
    /\ MadeWith("exa_research", "no_key")
    /\ MadeWith("create_notion_contact", "ok")
    /\ posted # None
    /\ posted[1].Status = "New"
    /\ ~ posted[1].ApolloEnriched

IsStar(u) == u = "*"
NotStar(u) == ~ IsStar(u)

\* a stripped dossier line without its header or bullet marker and without
\* its bold markers
LineContent(s) ==
    LET body == IF Len(s) >= 2 /\ s[1] = "#" /\ s[2] = " " THEN Strip(Drop(s, 2))
                ELSE IF Len(s) >= 3 /\ s[1] = "#" /\ s[2] = "#" /\ s[3] = " "
                     THEN Strip(Drop(s, 3))
                ELSE IF Len(s) >= 2 /\ s[1] \in {"-", "*"} /\ s[2] = " "
                     THEN Strip(Drop(s, 2))
                ELSE s
    IN SelectSeq(body, NotStar)

RECURSIVE LinesContent(_)
\* the content of a list of lines, line after line
LinesContent(lines) ==
    IF lines = <<>> THEN <<>>
    ELSE (IF Strip(Head(lines)) = <<>> THEN <<>> ELSE LineContent(Strip(Head(lines))))
         \o LinesContent(Tail(lines))

\* a dossier minus its markdown punctuation and its line layout
DossierContent(t) == LinesContent(SplitLines(t))

\* C21: the runs of the blocks written for a dossier, concatenated in block
\* order, are the dossier minus its header, bullet and bold markers: no
\* content character is lost, added or reordered.
C21_DossierConversionLossless ==
    posted # None /\ frame.dossier # None
    => ConcatRuns(SubSeq(posted[1].children, 2, DividerPos(posted[1].children) - 1))
         = DossierContent(frame.dossier[1])

\* the place of a recorded call in the stage order of process_update: source
\* resolution 1, "Processing" notice 2, extraction 3, enrichment 4, research 5,
\* synthesis 6, persistence 7, confirmation 8; 9 for the notice of an abort
StageRank(c) ==
    CASE c.op \in {"download_file", "extract_business_card", "transcribe_audio"} -> 1
      [] c.op = "send_message" /\ c.arg = <<"processing">>   -> 2
      [] c.op = "parse_contact"                              -> 3
      [] c.op = "enrich_with_apollo"                         -> 4
      [] c.op = "exa_research"                               -> 5
      [] c.op = "synthesize_dossier"                         -> 6
      [] c.op = "create_notion_contact"                      -> 7
      [] c.op = "send_message" /\ c.arg = <<"confirmation">> -> 8
      [] OTHER                                               -> 9

\* the call ends the handling of the message
Aborts(c) ==
    \/ StageRank(c) = 9
    \/ c.out = "raise" /\ c.op \notin {"enrich_with_apollo", "exa_research", "synthesize_dossier"}
    \/ c.op = "parse_contact" /\ c.out = "non_dict"
    \/ c.op = "transcribe_audio" /\ c.out = "empty"

\* C22: the calls made for one message follow the order source resolution,
\* "Processing" notice, extraction, enrichment, research, synthesis,
\* persistence, confirmation; no stage is called twice; after an abort only
\* its notice follows; a stage is reached only through the notice and a
\* successful extraction, persistence in particular.
C22_StagesInOrder ==
    InMessage /\ calls # <<>>
    => LET rank == [i \in 1..Len(calls) |-> StageRank(calls[i])]
           n == Len(calls)
       IN /\ \A i \in 1..(n - 1) :
               /\ rank[i] <= rank[i + 1]
               /\ rank[i] < rank[i + 1] \/ (rank[i] = 1 /\ calls[i].op # calls[i + 1].op)
               /\ Aborts(calls[i]) => rank[i + 1] = 9 /\ rank[i] # 9
          /\ \A op \in {"download_file", "extract_business_card", "transcribe_audio"} :
               Count(op) <= 1
          /\ rank[n] \in 3..8
             => \E i \in 1..(n - 1) : calls[i] = send_message("processing", "ok")
          /\ rank[n] \in 4..8 => MadeWith("parse_contact", "dict")
          /\ rank[n] = 8 => MadeWith("create_notion_contact", "ok")

C22_Witness ==
    /\ pc = "returned"
    /\ Len(calls) = 9
    /\ [i \in 1..9 |-> StageRank(calls[i])] = <<1, 1, 2, 3, 4, 5, 6, 7, 8>>

\* C23: the confirmation is sent for a message exactly when
\* create_notion_contact returned for that message, and after it; a message
\* that was aborted (command, other chat, voice unavailable, empty
\* transcription, failed extraction, failed persistence) never gets one.
C23_ConfirmationIffPersisted ==
    /\ Ended => (Sent("confirmation") <=> MadeWith("create_notion_contact", "ok"))
    /\ InMessage
       => /\ \A j \in 1..Len(calls) :
               calls[j].op = "send_message" /\ calls[j].arg = <<"confirmation">>
               => /\ \E i \in 1..(j - 1) :
                       calls[i].op = "create_notion_contact" /\ calls[i].out = "ok"
                  /\ posted # None
                  /\ CopiesIn(updates[idx].update_id, store) >= 1
          /\ (\E i \in 1..Len(calls) : Aborts(calls[i]) /\ StageRank(calls[i]) # 8)
             => ~ Sent("confirmation")
          /\ Sent("confirmation")
             => PlainTextMessage(updates[idx]) \/ updates[idx].message.photo
                \/ updates[idx].message.voice

C23_Witness ==
    /\ pc = "returned"
    /\ MadeWith("create_notion_contact", "ok")
    /\ Last(calls) = send_message("confirmation", "ok")

\* the update is a text message of an authorized chat that starts with "/"
CommandMessage(u) ==
    /\ u.message.chat # NoChat
    /\ ~ FromOtherChat(u)
    /\ ~ u.message.photo
    /\ ~ u.message.voice
    /\ StartsWith(u.message.text, "/")

\* C24: a text message that starts with "/" never enters the pipeline: no
\* "Processing" notice, no stage call, no page. The help text is sent when
\* the stripped text is "/start" or "/help", and no message at all is sent
\* for any other command. The message is still covered by the offset of the
\* batch.
C24_CommandsNeverReachPipeline ==
    /\ InMessage /\ CommandMessage(updates[idx])
       => /\ Ended
          /\ posted = None
          /\ \A i \in 1..Len(calls) : StageRank(calls[i]) = 9
          /\ IF Strip(updates[idx].message.text) \in {StartCmd, HelpCmd}
             THEN /\ Len(calls) = 1
                  /\ calls[1].op = "send_message" /\ calls[1].arg = <<"help">>
                  /\ (pc = "returned") = (calls[1].out = "ok")
             ELSE calls = <<>> /\ pc = "returned"
    /\ \A i \in 1..Len(updates) :
         CommandMessage(updates[i])
         => /\ CopiesIn(updates[i].update_id, store) = 0
            /\ \A k \in 1..Len(ackLog) :
                 /\ updates[i].update_id < ackLog[k].offset
                 /\ ackLog[k].out = "ok"
                    => \A j \in 1..Len(server) : server[j].update_id # updates[i].update_id

C24_Witness ==
    /\ pc = "exit"
    /\ Len(updates) = 2
    /\ CommandMessage(updates[1]) /\ updates[1].message.text = HelpCmdSp
    /\ CommandMessage(updates[2]) /\ updates[2].message.text = OtherCmd
    /\ processed = 2
    /\ ackLog # <<>> /\ ackLog[1].out = "ok"

====
